---------------------------- MODULE Spec2Model ----------------------------
(***************************************************************************)
(* GUST86 analytic orbits of the Uranian satellites                        *)
(* (trunk/src/main/astro/Gust86.cpp): Gust86Orbit::Create and              *)
(* Gust86Orbit::state with CalcGust86Elem, EllipticToRectangularN and      *)
(* EllipticToRectangular.                                                  *)
(*                                                                         *)
(* Arithmetic.  A C double is modelled as a fixed-point integer: a         *)
(* dimensionless number or an angle x is the integer round(x * S).  A      *)
(* quantity with a unit is an integer count of that unit (the unit is      *)
(* named where the quantity is defined).  Values beyond Big overflow to    *)
(* +-infinity as a double does beyond DBL_MAX, and NaN, +Inf and -Inf are  *)
(* values of their own that propagate as IEEE 754 prescribes.              *)
(***************************************************************************)
EXTENDS Integers, Sequences, FiniteSets, TLC

S == 10^4                 \* fixed-point scale: 1.0 is S
Big == 10^9               \* largest finite magnitude
PInf == Big + 1           \* +infinity
NInf == -(Big + 1)        \* -infinity
NaN == Big + 2            \* not-a-number
Unset == Big + 3          \* storage that was never written

IsNaN(x) == x = NaN
IsInf(x) == x = PInf \/ x = NInf
IsFinite(x) == x >= -Big /\ x <= Big

Sgn(x) == IF x < 0 THEN -1 ELSE 1
Abs(x) == IF x < 0 THEN -x ELSE x

\* overflow to infinity
Sat(v) == IF v > Big THEN PInf ELSE IF v < -Big THEN NInf ELSE v

\* a / b rounded to nearest, symmetric about zero (b > 0)
RDiv(a, b) == IF a >= 0 THEN (2 * a + b) \div (2 * b)
                         ELSE -((2 * (-a) + b) \div (2 * b))

\* |a| * |b| / S for finite a, b >= 0, computed in 32-bit-safe pieces
MulAbs(a, b) ==
    LET a1 == a \div S
        a0 == a % S
        b1 == b \div S
        b0 == b % S
    IN  IF a1 # 0 /\ b1 > (10^5) \div a1
        THEN PInf
        ELSE Sat(a1 * b1 * S + a1 * b0 + a0 * b1 + RDiv(a0 * b0, S))

FNeg(x) == IF IsNaN(x) THEN NaN ELSE -x

FAbs(x) == IF IsNaN(x) THEN NaN ELSE Abs(x)

\* a * b
FMul(a, b) ==
    IF IsNaN(a) \/ IsNaN(b) THEN NaN
    ELSE IF IsInf(a) \/ IsInf(b)
         THEN IF a = 0 \/ b = 0 THEN NaN
              ELSE IF Sgn(a) * Sgn(b) > 0 THEN PInf ELSE NInf
    ELSE LET r == MulAbs(Abs(a), Abs(b))
         IN  IF Sgn(a) * Sgn(b) > 0 THEN r ELSE -r

\* a + b
FAdd(a, b) ==
    IF IsNaN(a) \/ IsNaN(b) THEN NaN
    ELSE IF IsInf(a) THEN (IF IsInf(b) /\ a # b THEN NaN ELSE a)
    ELSE IF IsInf(b) THEN b
    ELSE Sat(a + b)

\* a - b
FSub(a, b) == FAdd(a, FNeg(b))

\* a / b to d further decimal digits, a >= 0, 0 < b <= 2 * 10^8
RECURSIVE LongDiv(_, _, _)
LongDiv(a, b, d) ==
    LET q == a \div b
        r == a % b
    IN  IF d = 0 THEN q + (IF 2 * r >= b THEN 1 ELSE 0)
        ELSE IF q > Big \div (10^d) THEN PInf
        ELSE Sat(q * 10^d + LongDiv(r * 10, b, d - 1))

\* |a| * S / |b| for finite a >= 0, b > 0
DivAbs(a, b) == IF b > 2 * 10^8 THEN LongDiv(a, RDiv(b, 10), 3)
                                ELSE LongDiv(a, b, 4)

\* a / b (the sign of a zero is not modelled)
FDiv(a, b) ==
    IF IsNaN(a) \/ IsNaN(b) THEN NaN
    ELSE IF IsInf(a) THEN (IF IsInf(b) THEN NaN ELSE IF b >= 0 THEN a ELSE -a)
    ELSE IF IsInf(b) THEN 0
    ELSE IF b = 0 THEN (IF a = 0 THEN NaN ELSE IF a > 0 THEN PInf ELSE NInf)
    ELSE LET r == DivAbs(Abs(a), Abs(b))
         IN  IF Sgn(a) * Sgn(b) > 0 THEN r ELSE -r

\* a <= b: false when either is NaN
FLe(a, b) == ~IsNaN(a) /\ ~IsNaN(b) /\ a <= b

TwoPi == 62832            \* 2.0*M_PI
Pi == TwoPi \div 2        \* M_PI
HalfPi == Pi \div 2
QuarterPi == HalfPi \div 2

\* sin y for 0 <= y <= pi/4 (Taylor polynomial to y^7)
SinPoly(y) ==
    LET y2 == RDiv(y * y, S)
        t1 == S - RDiv(y2, 42)
        t2 == S - RDiv(RDiv(y2 * t1, S), 20)
        t3 == S - RDiv(RDiv(y2 * t2, S), 6)
    IN  RDiv(y * t3, S)

\* cos y for 0 <= y <= pi/4 (Taylor polynomial to y^8)
CosPoly(y) ==
    LET y2 == RDiv(y * y, S)
        t1 == S - RDiv(y2, 56)
        t2 == S - RDiv(RDiv(y2 * t1, S), 30)
        t3 == S - RDiv(RDiv(y2 * t2, S), 12)
    IN  S - RDiv(RDiv(y2 * t3, S), 2)

SinCore(y) == IF y <= QuarterPi THEN SinPoly(y) ELSE CosPoly(HalfPi - y)

\* sin r for 0 <= r < 2 pi
SinRed(r) == IF r <= HalfPi THEN SinCore(r)
             ELSE IF r <= Pi THEN SinCore(Pi - r)
             ELSE IF r <= Pi + HalfPi THEN -SinCore(r - Pi)
             ELSE -SinCore(TwoPi - r)

\* sin(x), cos(x): NaN for a non-finite argument
FSin(x) == IF ~IsFinite(x) THEN NaN ELSE SinRed(x % TwoPi)

FCos(x) == IF ~IsFinite(x) THEN NaN ELSE SinRed(((x % TwoPi) + HalfPi) % TwoPi)

\* fmod(x, y): the remainder has the sign of x
FFmod(x, y) ==
    IF IsNaN(x) \/ IsNaN(y) \/ IsInf(x) \/ y = 0 THEN NaN
    ELSE IF IsInf(y) THEN x
    ELSE IF x >= 0 THEN x % Abs(y) ELSE -((-x) % Abs(y))

\* floor of the square root of an integer n >= 0
RECURSIVE ISqrtIn(_, _, _)
ISqrtIn(n, lo, hi) ==
    IF lo >= hi THEN lo
    ELSE LET mid == (lo + hi + 1) \div 2
         IN  IF mid * mid <= n THEN ISqrtIn(n, mid, hi)
                               ELSE ISqrtIn(n, lo, mid - 1)

ISqrt(n) == ISqrtIn(n, 0, 46340)

\* sqrt(x): NaN for a negative argument
FSqrt(x) ==
    IF IsNaN(x) \/ x < 0 THEN NaN
    ELSE IF x = PInf THEN PInf
    ELSE IF x <= 2 * 10^5 THEN ISqrt(x * S)
    ELSE ISqrt(x) * 100


-----------------------------------------------------------------------------
(***************************************************************************)
(* Literals.  A floating-point literal of the source with up to eight      *)
(* decimals c is kept exactly, as the integer c * 10^8; it is rounded to   *)
(* the scale S where it enters the arithmetic.                             *)
(***************************************************************************)

\* a value in units of 10^-8 rounded to the scale S
FromLit(v) == IF IsFinite(v) THEN RDiv(v, 10^4) ELSE v

\* literal c (units of 10^-8) times x: the result has the unit of x
LitMul(c, x) ==
    LET m == Abs(c)
        r == FAdd(FMul(m \div 10^4, x), FromLit(FMul(m % 10^4, x)))
    IN  IF c >= 0 THEN r ELSE FNeg(r)

\* a C array: indices from 0
Arr(seq) == [i \in 0..(Len(seq) - 1) |-> seq[i + 1]]

NumSatellites == 5

\* enum Gust86Orbit::Satellite, as the int it converts to
Satellites == 0..(NumSatellites - 1)

\* mean-motion frequencies, rad/day (units of 10^-8)
fqn == Arr(<<444519055, 249295252, 151614811, 72171851, 46669212>>)

\* 20.082*M_PI/(180*365.25) ..., rad/day (units of 10^-8)
fqe == Arr(<<95961, 29708, 13690, 9930, 1844>>)

fqi == Arr(<<-97046, -30047, -13552, -8807, -1238>>)

\* phases, rad (units of 10^-8)
phn == Arr(<<-23805100, 309804600, 228540200, 85635900, -91559200>>)

phe == Arr(<<61139200, 240897400, 206777400, 73513100, 42676700>>)

phi == Arr(<<570231300, 39575700, 58932600, 174623700, 420689600>>)

\* gravitational parameters, AU^3/day^2 (units of 10^-16)
gust86_rmu == Arr(<<129189235, 129191057, 129191010, 129194266, 129193597>>)

\* the table with one entry taken from GUST86toVsop87
GUST86toJ2000Mixed == Arr(<<97532056, 6194438, 21192618,
                            -20064446, 25299053, 94194925,
                            473314, -96548365, 26042065>>)

\* rotation to J2000 (units of 10^-8)
GUST86toJ2000 == Arr(<<97532056, 6194438, 21192618,
                       -22074285, 25299053, 94194925,
                       473314, -96548365, 26042065>>)

\* the objects of static storage duration of Gust86.cpp
Gust86Statics == [fqn |-> fqn, fqe |-> fqe, fqi |-> fqi,
                  phn |-> phn, phe |-> phe, phi |-> phi,
                  gust86_rmu |-> gust86_rmu, GUST86toJ2000 |-> GUST86toJ2000]

-----------------------------------------------------------------------------
(***************************************************************************)
(* The series of CalcGust86Elem.  Each elements[i] is                      *)
(*   const + rate * t + the sum of coefficient * fn(combination)           *)
(* with a term written <<coefficient, fn, combination>> and a combination  *)
(* a sequence of <<array, index, multiplier>>.  Coefficients, constants    *)
(* and rates are in units of 10^-8.                                        *)
(***************************************************************************)

\* Miranda: elements[0] (Gust86.cpp lines 126-131)
MirandaElem0 ==
    [const |-> 444352267, rate |-> 0, terms |-> <<
        <<-3492, "cos", <<<<"an", 0, 1>>, <<"an", 1, -3>>, <<"an", 2, 2>>>>>>,
        <<847, "cos", <<<<"an", 0, 2>>, <<"an", 1, -6>>, <<"an", 2, 4>>>>>>,
        <<131, "cos", <<<<"an", 0, 3>>, <<"an", 1, -9>>, <<"an", 2, 6>>>>>>,
        <<-5228, "cos", <<<<"an", 0, 1>>, <<"an", 1, -1>>>>>>,
        <<-13665, "cos", <<<<"an", 0, 2>>, <<"an", 1, -2>>>>>>
    >>]

\* Miranda's elements[1] with the phase phn[0] written for the bias
MirandaElem1PhaseBias ==
    [const |-> -23805100, rate |-> 444519055, terms |-> <<
        <<2547217, "sin", <<<<"an", 0, 1>>, <<"an", 1, -3>>, <<"an", 2, 2>>>>>>,
        <<-308831, "sin", <<<<"an", 0, 2>>, <<"an", 1, -6>>, <<"an", 2, 4>>>>>>,
        <<-31810, "sin", <<<<"an", 0, 3>>, <<"an", 1, -9>>, <<"an", 2, 6>>>>>>,
        <<-3749, "sin", <<<<"an", 0, 4>>, <<"an", 1, -12>>, <<"an", 2, 8>>>>>>,
        <<-5785, "sin", <<<<"an", 0, 1>>, <<"an", 1, -1>>>>>>,
        <<-6232, "sin", <<<<"an", 0, 2>>, <<"an", 1, -2>>>>>>,
        <<-2795, "sin", <<<<"an", 0, 3>>, <<"an", 1, -3>>>>>>
    >>]

\* Miranda: elements[1] (Gust86.cpp lines 132-140)
MirandaElem1 ==
    [const |-> -23805158, rate |-> 444519055, terms |-> <<
        <<2547217, "sin", <<<<"an", 0, 1>>, <<"an", 1, -3>>, <<"an", 2, 2>>>>>>,
        <<-308831, "sin", <<<<"an", 0, 2>>, <<"an", 1, -6>>, <<"an", 2, 4>>>>>>,
        <<-31810, "sin", <<<<"an", 0, 3>>, <<"an", 1, -9>>, <<"an", 2, 6>>>>>>,
        <<-3749, "sin", <<<<"an", 0, 4>>, <<"an", 1, -12>>, <<"an", 2, 8>>>>>>,
        <<-5785, "sin", <<<<"an", 0, 1>>, <<"an", 1, -1>>>>>>,
        <<-6232, "sin", <<<<"an", 0, 2>>, <<"an", 1, -2>>>>>>,
        <<-2795, "sin", <<<<"an", 0, 3>>, <<"an", 1, -3>>>>>>
    >>]

\* Miranda's elements[2] with the leading coefficient .00131238 taken as 1.31238
MirandaElem2Unscaled ==
    [const |-> 0, rate |-> 0, terms |-> <<
        <<131238000, "cos", <<<<"ae", 0, 1>>>>>>,
        <<7181, "cos", <<<<"ae", 1, 1>>>>>>,
        <<6977, "cos", <<<<"ae", 2, 1>>>>>>,
        <<675, "cos", <<<<"ae", 3, 1>>>>>>,
        <<627, "cos", <<<<"ae", 4, 1>>>>>>,
        <<19410, "cos", <<<<"an", 0, 1>>>>>>,
        <<-12331, "cos", <<<<"an", 0, -1>>, <<"an", 1, 2>>>>>>,
        <<3952, "cos", <<<<"an", 0, -2>>, <<"an", 1, 3>>>>>>
    >>]

\* Miranda: elements[2] (Gust86.cpp lines 141-148)
MirandaElem2 ==
    [const |-> 0, rate |-> 0, terms |-> <<
        <<131238, "cos", <<<<"ae", 0, 1>>>>>>,
        <<7181, "cos", <<<<"ae", 1, 1>>>>>>,
        <<6977, "cos", <<<<"ae", 2, 1>>>>>>,
        <<675, "cos", <<<<"ae", 3, 1>>>>>>,
        <<627, "cos", <<<<"ae", 4, 1>>>>>>,
        <<19410, "cos", <<<<"an", 0, 1>>>>>>,
        <<-12331, "cos", <<<<"an", 0, -1>>, <<"an", 1, 2>>>>>>,
        <<3952, "cos", <<<<"an", 0, -2>>, <<"an", 1, 3>>>>>>
    >>]

\* Miranda's elements[3] with cos written where the source has sin
MirandaElem3Cosines ==
    [const |-> 0, rate |-> 0, terms |-> <<
        <<131238, "cos", <<<<"ae", 0, 1>>>>>>,
        <<7181, "cos", <<<<"ae", 1, 1>>>>>>,
        <<6977, "cos", <<<<"ae", 2, 1>>>>>>,
        <<675, "cos", <<<<"ae", 3, 1>>>>>>,
        <<627, "cos", <<<<"ae", 4, 1>>>>>>,
        <<19410, "cos", <<<<"an", 0, 1>>>>>>,
        <<-12331, "cos", <<<<"an", 0, -1>>, <<"an", 1, 2>>>>>>,
        <<3952, "cos", <<<<"an", 0, -2>>, <<"an", 1, 3>>>>>>
    >>]

\* Miranda: elements[3] (Gust86.cpp lines 149-156)
MirandaElem3 ==
    [const |-> 0, rate |-> 0, terms |-> <<
        <<131238, "sin", <<<<"ae", 0, 1>>>>>>,
        <<7181, "sin", <<<<"ae", 1, 1>>>>>>,
        <<6977, "sin", <<<<"ae", 2, 1>>>>>>,
        <<675, "sin", <<<<"ae", 3, 1>>>>>>,
        <<627, "sin", <<<<"ae", 4, 1>>>>>>,
        <<19410, "sin", <<<<"an", 0, 1>>>>>>,
        <<-12331, "sin", <<<<"an", 0, -1>>, <<"an", 1, 2>>>>>>,
        <<3952, "sin", <<<<"an", 0, -2>>, <<"an", 1, 3>>>>>>
    >>]

\* Miranda: elements[4] (Gust86.cpp lines 157-161)
MirandaElem4 ==
    [const |-> 0, rate |-> 0, terms |-> <<
        <<3787171, "cos", <<<<"ai", 0, 1>>>>>>,
        <<2701, "cos", <<<<"ai", 1, 1>>>>>>,
        <<3076, "cos", <<<<"ai", 2, 1>>>>>>,
        <<1218, "cos", <<<<"ai", 3, 1>>>>>>,
        <<537, "cos", <<<<"ai", 4, 1>>>>>>
    >>]

\* Miranda: elements[5] (Gust86.cpp lines 162-166)
MirandaElem5 ==
    [const |-> 0, rate |-> 0, terms |-> <<
        <<3787171, "sin", <<<<"ai", 0, 1>>>>>>,
        <<2701, "sin", <<<<"ai", 1, 1>>>>>>,
        <<3076, "sin", <<<<"ai", 2, 1>>>>>>,
        <<1218, "sin", <<<<"ai", 3, 1>>>>>>,
        <<537, "sin", <<<<"ai", 4, 1>>>>>>
    >>]

\* Ariel: elements[0] (Gust86.cpp lines 170-173)
ArielElem0 ==
    [const |-> 249254257, rate |-> 0, terms |-> <<
        <<255, "cos", <<<<"an", 0, 1>>, <<"an", 1, -3>>, <<"an", 2, 2>>>>>>,
        <<-4216, "cos", <<<<"an", 1, 1>>, <<"an", 2, -1>>>>>>,
        <<-10256, "cos", <<<<"an", 1, 2>>, <<"an", 2, -2>>>>>>
    >>]

\* Ariel: elements[1] (Gust86.cpp lines 174-183)
ArielElem1 ==
    [const |-> 309804641, rate |-> 249295252, terms |-> <<
        <<-186050, "sin", <<<<"an", 0, 1>>, <<"an", 1, -3>>, <<"an", 2, 2>>>>>>,
        <<21999, "sin", <<<<"an", 0, 2>>, <<"an", 1, -6>>, <<"an", 2, 4>>>>>>,
        <<2310, "sin", <<<<"an", 0, 3>>, <<"an", 1, -9>>, <<"an", 2, 6>>>>>>,
        <<430, "sin", <<<<"an", 0, 4>>, <<"an", 1, -12>>, <<"an", 2, 8>>>>>>,
        <<-9011, "sin", <<<<"an", 1, 1>>, <<"an", 2, -1>>>>>>,
        <<-9107, "sin", <<<<"an", 1, 2>>, <<"an", 2, -2>>>>>>,
        <<-4275, "sin", <<<<"an", 1, 3>>, <<"an", 2, -3>>>>>>,
        <<-1649, "sin", <<<<"an", 1, 2>>, <<"an", 3, -2>>>>>>
    >>]

\* Ariel: elements[2] (Gust86.cpp lines 184-192)
ArielElem2 ==
    [const |-> 0, rate |-> 0, terms |-> <<
        <<-335, "cos", <<<<"ae", 0, 1>>>>>>,
        <<118763, "cos", <<<<"ae", 1, 1>>>>>>,
        <<86159, "cos", <<<<"ae", 2, 1>>>>>>,
        <<7150, "cos", <<<<"ae", 3, 1>>>>>>,
        <<5559, "cos", <<<<"ae", 4, 1>>>>>>,
        <<-8460, "cos", <<<<"an", 1, -1>>, <<"an", 2, 2>>>>>>,
        <<9181, "cos", <<<<"an", 1, -2>>, <<"an", 2, 3>>>>>>,
        <<2003, "cos", <<<<"an", 1, -1>>, <<"an", 3, 2>>>>>>,
        <<8977, "cos", <<<<"an", 1, 1>>>>>>
    >>]

\* Ariel: elements[3] (Gust86.cpp lines 193-201)
ArielElem3 ==
    [const |-> 0, rate |-> 0, terms |-> <<
        <<-335, "sin", <<<<"ae", 0, 1>>>>>>,
        <<118763, "sin", <<<<"ae", 1, 1>>>>>>,
        <<86159, "sin", <<<<"ae", 2, 1>>>>>>,
        <<7150, "sin", <<<<"ae", 3, 1>>>>>>,
        <<5559, "sin", <<<<"ae", 4, 1>>>>>>,
        <<-8460, "sin", <<<<"an", 1, -1>>, <<"an", 2, 2>>>>>>,
        <<9181, "sin", <<<<"an", 1, -2>>, <<"an", 2, 3>>>>>>,
        <<2003, "sin", <<<<"an", 1, -1>>, <<"an", 3, 2>>>>>>,
        <<8977, "sin", <<<<"an", 1, 1>>>>>>
    >>]

\* Ariel: elements[4] (Gust86.cpp lines 202-206)
ArielElem4 ==
    [const |-> 0, rate |-> 0, terms |-> <<
        <<-12175, "cos", <<<<"ai", 0, 1>>>>>>,
        <<35825, "cos", <<<<"ai", 1, 1>>>>>>,
        <<29008, "cos", <<<<"ai", 2, 1>>>>>>,
        <<9778, "cos", <<<<"ai", 3, 1>>>>>>,
        <<3397, "cos", <<<<"ai", 4, 1>>>>>>
    >>]

\* Ariel: elements[5] (Gust86.cpp lines 207-211)
ArielElem5 ==
    [const |-> 0, rate |-> 0, terms |-> <<
        <<-12175, "sin", <<<<"ai", 0, 1>>>>>>,
        <<35825, "sin", <<<<"ai", 1, 1>>>>>>,
        <<29008, "sin", <<<<"ai", 2, 1>>>>>>,
        <<9778, "sin", <<<<"ai", 3, 1>>>>>>,
        <<3397, "sin", <<<<"ai", 4, 1>>>>>>
    >>]

\* Umbriel: elements[0] (Gust86.cpp lines 215-221)
UmbrielElem0 ==
    [const |-> 151595490, rate |-> 0, terms |-> <<
        <<974, "cos", <<<<"an", 2, 1>>, <<"an", 3, -2>>, <<"ae", 2, 1>>>>>>,
        <<-10600, "cos", <<<<"an", 1, 1>>, <<"an", 2, -1>>>>>>,
        <<5416, "cos", <<<<"an", 1, 2>>, <<"an", 2, -2>>>>>>,
        <<-2359, "cos", <<<<"an", 2, 1>>, <<"an", 3, -1>>>>>>,
        <<-7070, "cos", <<<<"an", 2, 2>>, <<"an", 3, -2>>>>>>,
        <<-3628, "cos", <<<<"an", 2, 3>>, <<"an", 3, -3>>>>>>
    >>]

\* Umbriel: elements[1] (Gust86.cpp lines 222-242)
UmbrielElem1 ==
    [const |-> 228540169, rate |-> 151614811, terms |-> <<
        <<66057, "sin", <<<<"an", 0, 1>>, <<"an", 1, -3>>, <<"an", 2, 2>>>>>>,
        <<-7651, "sin", <<<<"an", 0, 2>>, <<"an", 1, -6>>, <<"an", 2, 4>>>>>>,
        <<-896, "sin", <<<<"an", 0, 3>>, <<"an", 1, -9>>, <<"an", 2, 6>>>>>>,
        <<-253, "sin", <<<<"an", 0, 4>>, <<"an", 1, -12>>, <<"an", 2, 8>>>>>>,
        <<-5291, "sin", <<<<"an", 2, 1>>, <<"an", 3, -4>>, <<"an", 4, 3>>>>>>,
        <<-734, "sin", <<<<"an", 2, 1>>, <<"an", 3, -2>>, <<"ae", 4, 1>>>>>>,
        <<-183, "sin", <<<<"an", 2, 1>>, <<"an", 3, -2>>, <<"ae", 3, 1>>>>>>,
        <<14791, "sin", <<<<"an", 2, 1>>, <<"an", 3, -2>>, <<"ae", 2, 1>>>>>>,
        <<-777, "sin", <<<<"an", 2, 1>>, <<"an", 3, -2>>, <<"ae", 1, 1>>>>>>,
        <<9776, "sin", <<<<"an", 1, 1>>, <<"an", 2, -1>>>>>>,
        <<7313, "sin", <<<<"an", 1, 2>>, <<"an", 2, -2>>>>>>,
        <<3471, "sin", <<<<"an", 1, 3>>, <<"an", 2, -3>>>>>>,
        <<1889, "sin", <<<<"an", 1, 4>>, <<"an", 2, -4>>>>>>,
        <<-6789, "sin", <<<<"an", 2, 1>>, <<"an", 3, -1>>>>>>,
        <<-8286, "sin", <<<<"an", 2, 2>>, <<"an", 3, -2>>>>>>,
        <<-3381, "sin", <<<<"an", 2, 3>>, <<"an", 3, -3>>>>>>,
        <<-1579, "sin", <<<<"an", 2, 4>>, <<"an", 3, -4>>>>>>,
        <<-1021, "sin", <<<<"an", 2, 1>>, <<"an", 4, -1>>>>>>,
        <<-1708, "sin", <<<<"an", 2, 2>>, <<"an", 4, -2>>>>>>
    >>]

\* Umbriel: elements[2] (Gust86.cpp lines 243-258)
UmbrielElem2 ==
    [const |-> 0, rate |-> 0, terms |-> <<
        <<-21, "cos", <<<<"ae", 0, 1>>>>>>,
        <<-22795, "cos", <<<<"ae", 1, 1>>>>>>,
        <<390469, "cos", <<<<"ae", 2, 1>>>>>>,
        <<30917, "cos", <<<<"ae", 3, 1>>>>>>,
        <<22192, "cos", <<<<"ae", 4, 1>>>>>>,
        <<2934, "cos", <<<<"an", 1, 1>>>>>>,
        <<2620, "cos", <<<<"an", 2, 1>>>>>>,
        <<5119, "cos", <<<<"an", 1, -1>>, <<"an", 2, 2>>>>>>,
        <<-10386, "cos", <<<<"an", 1, -2>>, <<"an", 2, 3>>>>>>,
        <<-2716, "cos", <<<<"an", 1, -3>>, <<"an", 2, 4>>>>>>,
        <<-1622, "cos", <<<<"an", 3, 1>>>>>>,
        <<54923, "cos", <<<<"an", 2, -1>>, <<"an", 3, 2>>>>>>,
        <<3470, "cos", <<<<"an", 2, -2>>, <<"an", 3, 3>>>>>>,
        <<1281, "cos", <<<<"an", 2, -3>>, <<"an", 3, 4>>>>>>,
        <<2181, "cos", <<<<"an", 2, -1>>, <<"an", 4, 2>>>>>>,
        <<4625, "cos", <<<<"an", 2, 1>>>>>>
    >>]

\* Umbriel: elements[3] (Gust86.cpp lines 259-274)
UmbrielElem3 ==
    [const |-> 0, rate |-> 0, terms |-> <<
        <<-21, "sin", <<<<"ae", 0, 1>>>>>>,
        <<-22795, "sin", <<<<"ae", 1, 1>>>>>>,
        <<390469, "sin", <<<<"ae", 2, 1>>>>>>,
        <<30917, "sin", <<<<"ae", 3, 1>>>>>>,
        <<22192, "sin", <<<<"ae", 4, 1>>>>>>,
        <<2934, "sin", <<<<"an", 1, 1>>>>>>,
        <<2620, "sin", <<<<"an", 2, 1>>>>>>,
        <<5119, "sin", <<<<"an", 1, -1>>, <<"an", 2, 2>>>>>>,
        <<-10386, "sin", <<<<"an", 1, -2>>, <<"an", 2, 3>>>>>>,
        <<-2716, "sin", <<<<"an", 1, -3>>, <<"an", 2, 4>>>>>>,
        <<-1622, "sin", <<<<"an", 3, 1>>>>>>,
        <<54923, "sin", <<<<"an", 2, -1>>, <<"an", 3, 2>>>>>>,
        <<3470, "sin", <<<<"an", 2, -2>>, <<"an", 3, 3>>>>>>,
        <<1281, "sin", <<<<"an", 2, -3>>, <<"an", 3, 4>>>>>>,
        <<2181, "sin", <<<<"an", 2, -1>>, <<"an", 4, 2>>>>>>,
        <<4625, "sin", <<<<"an", 2, 1>>>>>>
    >>]

\* Umbriel: elements[4] (Gust86.cpp lines 275-279)
UmbrielElem4 ==
    [const |-> 0, rate |-> 0, terms |-> <<
        <<-1086, "cos", <<<<"ai", 0, 1>>>>>>,
        <<-8151, "cos", <<<<"ai", 1, 1>>>>>>,
        <<111336, "cos", <<<<"ai", 2, 1>>>>>>,
        <<35014, "cos", <<<<"ai", 3, 1>>>>>>,
        <<10650, "cos", <<<<"ai", 4, 1>>>>>>
    >>]

\* Umbriel: elements[5] (Gust86.cpp lines 280-284)
UmbrielElem5 ==
    [const |-> 0, rate |-> 0, terms |-> <<
        <<-1086, "sin", <<<<"ai", 0, 1>>>>>>,
        <<-8151, "sin", <<<<"ai", 1, 1>>>>>>,
        <<111336, "sin", <<<<"ai", 2, 1>>>>>>,
        <<35014, "sin", <<<<"ai", 3, 1>>>>>>,
        <<10650, "sin", <<<<"ai", 4, 1>>>>>>
    >>]

\* Titania: elements[0] (Gust86.cpp lines 288-300)
TitaniaElem0 ==
    [const |-> 72166316, rate |-> 0, terms |-> <<
        <<-264, "cos", <<<<"an", 2, 1>>, <<"an", 3, -2>>, <<"ae", 2, 1>>>>>>,
        <<-216, "cos", <<<<"an", 3, 2>>, <<"an", 4, -3>>, <<"ae", 4, 1>>>>>>,
        <<645, "cos", <<<<"an", 3, 2>>, <<"an", 4, -3>>, <<"ae", 3, 1>>>>>>,
        <<-111, "cos", <<<<"an", 3, 2>>, <<"an", 4, -3>>, <<"ae", 2, 1>>>>>>,
        <<-6223, "cos", <<<<"an", 1, 1>>, <<"an", 3, -1>>>>>>,
        <<-5613, "cos", <<<<"an", 2, 1>>, <<"an", 3, -1>>>>>>,
        <<-3994, "cos", <<<<"an", 3, 1>>, <<"an", 4, -1>>>>>>,
        <<-9185, "cos", <<<<"an", 3, 2>>, <<"an", 4, -2>>>>>>,
        <<-5831, "cos", <<<<"an", 3, 3>>, <<"an", 4, -3>>>>>>,
        <<-3860, "cos", <<<<"an", 3, 4>>, <<"an", 4, -4>>>>>>,
        <<-2618, "cos", <<<<"an", 3, 5>>, <<"an", 4, -5>>>>>>,
        <<-1806, "cos", <<<<"an", 3, 6>>, <<"an", 4, -6>>>>>>
    >>]

\* Titania: elements[1] (Gust86.cpp lines 301-321)
TitaniaElem1 ==
    [const |-> 85635879, rate |-> 72171851, terms |-> <<
        <<2061, "sin", <<<<"an", 2, 1>>, <<"an", 3, -4>>, <<"an", 4, 3>>>>>>,
        <<-207, "sin", <<<<"an", 2, 1>>, <<"an", 3, -2>>, <<"ae", 4, 1>>>>>>,
        <<-288, "sin", <<<<"an", 2, 1>>, <<"an", 3, -2>>, <<"ae", 3, 1>>>>>>,
        <<-4079, "sin", <<<<"an", 2, 1>>, <<"an", 3, -2>>, <<"ae", 2, 1>>>>>>,
        <<211, "sin", <<<<"an", 2, 1>>, <<"an", 3, -2>>, <<"ae", 1, 1>>>>>>,
        <<-5183, "sin", <<<<"an", 3, 2>>, <<"an", 4, -3>>, <<"ae", 4, 1>>>>>>,
        <<15987, "sin", <<<<"an", 3, 2>>, <<"an", 4, -3>>, <<"ae", 3, 1>>>>>>,
        <<-3505, "sin", <<<<"an", 3, 2>>, <<"an", 4, -3>>, <<"ae", 2, 1>>>>>>,
        <<-156, "sin", <<<<"an", 3, 3>>, <<"an", 4, -4>>, <<"ae", 4, 1>>>>>>,
        <<4054, "sin", <<<<"an", 1, 1>>, <<"an", 3, -1>>>>>>,
        <<4617, "sin", <<<<"an", 2, 1>>, <<"an", 3, -1>>>>>>,
        <<-31776, "sin", <<<<"an", 3, 1>>, <<"an", 4, -1>>>>>>,
        <<-30559, "sin", <<<<"an", 3, 2>>, <<"an", 4, -2>>>>>>,
        <<-14836, "sin", <<<<"an", 3, 3>>, <<"an", 4, -3>>>>>>,
        <<-8292, "sin", <<<<"an", 3, 4>>, <<"an", 4, -4>>>>>>,
        <<-4998, "sin", <<<<"an", 3, 5>>, <<"an", 4, -5>>>>>>,
        <<-3156, "sin", <<<<"an", 3, 6>>, <<"an", 4, -6>>>>>>,
        <<-2056, "sin", <<<<"an", 3, 7>>, <<"an", 4, -7>>>>>>,
        <<-1369, "sin", <<<<"an", 3, 8>>, <<"an", 4, -8>>>>>>
    >>]

\* Titania: elements[2] (Gust86.cpp lines 322-339)
TitaniaElem2 ==
    [const |-> 0, rate |-> 0, terms |-> <<
        <<-2, "cos", <<<<"ae", 0, 1>>>>>>,
        <<-129, "cos", <<<<"ae", 1, 1>>>>>>,
        <<-32451, "cos", <<<<"ae", 2, 1>>>>>>,
        <<93281, "cos", <<<<"ae", 3, 1>>>>>>,
        <<112089, "cos", <<<<"ae", 4, 1>>>>>>,
        <<3386, "cos", <<<<"an", 1, 1>>>>>>,
        <<1746, "cos", <<<<"an", 3, 1>>>>>>,
        <<1658, "cos", <<<<"an", 1, -1>>, <<"an", 3, 2>>>>>>,
        <<2889, "cos", <<<<"an", 2, 1>>>>>>,
        <<-3586, "cos", <<<<"an", 2, -1>>, <<"an", 3, 2>>>>>>,
        <<-1786, "cos", <<<<"an", 3, 1>>>>>>,
        <<-3210, "cos", <<<<"an", 4, 1>>>>>>,
        <<-17783, "cos", <<<<"an", 3, -1>>, <<"an", 4, 2>>>>>>,
        <<79343, "cos", <<<<"an", 3, -2>>, <<"an", 4, 3>>>>>>,
        <<9948, "cos", <<<<"an", 3, -3>>, <<"an", 4, 4>>>>>>,
        <<4483, "cos", <<<<"an", 3, -4>>, <<"an", 4, 5>>>>>>,
        <<2513, "cos", <<<<"an", 3, -5>>, <<"an", 4, 6>>>>>>,
        <<1543, "cos", <<<<"an", 3, -6>>, <<"an", 4, 7>>>>>>
    >>]

\* Titania: elements[3] (Gust86.cpp lines 340-357)
TitaniaElem3 ==
    [const |-> 0, rate |-> 0, terms |-> <<
        <<-2, "sin", <<<<"ae", 0, 1>>>>>>,
        <<-129, "sin", <<<<"ae", 1, 1>>>>>>,
        <<-32451, "sin", <<<<"ae", 2, 1>>>>>>,
        <<93281, "sin", <<<<"ae", 3, 1>>>>>>,
        <<112089, "sin", <<<<"ae", 4, 1>>>>>>,
        <<3386, "sin", <<<<"an", 1, 1>>>>>>,
        <<1746, "sin", <<<<"an", 3, 1>>>>>>,
        <<1658, "sin", <<<<"an", 1, -1>>, <<"an", 3, 2>>>>>>,
        <<2889, "sin", <<<<"an", 2, 1>>>>>>,
        <<-3586, "sin", <<<<"an", 2, -1>>, <<"an", 3, 2>>>>>>,
        <<-1786, "sin", <<<<"an", 3, 1>>>>>>,
        <<-3210, "sin", <<<<"an", 4, 1>>>>>>,
        <<-17783, "sin", <<<<"an", 3, -1>>, <<"an", 4, 2>>>>>>,
        <<79343, "sin", <<<<"an", 3, -2>>, <<"an", 4, 3>>>>>>,
        <<9948, "sin", <<<<"an", 3, -3>>, <<"an", 4, 4>>>>>>,
        <<4483, "sin", <<<<"an", 3, -4>>, <<"an", 4, 5>>>>>>,
        <<2513, "sin", <<<<"an", 3, -5>>, <<"an", 4, 6>>>>>>,
        <<1543, "sin", <<<<"an", 3, -6>>, <<"an", 4, 7>>>>>>
    >>]

\* Titania: elements[4] (Gust86.cpp lines 358-362)
TitaniaElem4 ==
    [const |-> 0, rate |-> 0, terms |-> <<
        <<-143, "cos", <<<<"ai", 0, 1>>>>>>,
        <<-106, "cos", <<<<"ai", 1, 1>>>>>>,
        <<-14013, "cos", <<<<"ai", 2, 1>>>>>>,
        <<68572, "cos", <<<<"ai", 3, 1>>>>>>,
        <<37832, "cos", <<<<"ai", 4, 1>>>>>>
    >>]

\* Titania: elements[5] (Gust86.cpp lines 363-367)
TitaniaElem5 ==
    [const |-> 0, rate |-> 0, terms |-> <<
        <<-143, "sin", <<<<"ai", 0, 1>>>>>>,
        <<-106, "sin", <<<<"ai", 1, 1>>>>>>,
        <<-14013, "sin", <<<<"ai", 2, 1>>>>>>,
        <<68572, "sin", <<<<"ai", 3, 1>>>>>>,
        <<37832, "sin", <<<<"ai", 4, 1>>>>>>
    >>]

\* Oberon: elements[0] (Gust86.cpp lines 371-381)
OberonElem0 ==
    [const |-> 46658054, rate |-> 0, terms |-> <<
        <<208, "cos", <<<<"an", 3, 2>>, <<"an", 4, -3>>, <<"ae", 4, 1>>>>>>,
        <<-622, "cos", <<<<"an", 3, 2>>, <<"an", 4, -3>>, <<"ae", 3, 1>>>>>>,
        <<107, "cos", <<<<"an", 3, 2>>, <<"an", 4, -3>>, <<"ae", 2, 1>>>>>>,
        <<-4310, "cos", <<<<"an", 1, 1>>, <<"an", 4, -1>>>>>>,
        <<-3894, "cos", <<<<"an", 2, 1>>, <<"an", 4, -1>>>>>>,
        <<-8011, "cos", <<<<"an", 3, 1>>, <<"an", 4, -1>>>>>>,
        <<5906, "cos", <<<<"an", 3, 2>>, <<"an", 4, -2>>>>>>,
        <<3749, "cos", <<<<"an", 3, 3>>, <<"an", 4, -3>>>>>>,
        <<2482, "cos", <<<<"an", 3, 4>>, <<"an", 4, -4>>>>>>,
        <<1684, "cos", <<<<"an", 3, 5>>, <<"an", 4, -5>>>>>>
    >>]

\* Oberon: elements[1] (Gust86.cpp lines 382-397)
OberonElem1 ==
    [const |-> -91559180, rate |-> 46669212, terms |-> <<
        <<-782, "sin", <<<<"an", 2, 1>>, <<"an", 3, -4>>, <<"an", 4, 3>>>>>>,
        <<5129, "sin", <<<<"an", 3, 2>>, <<"an", 4, -3>>, <<"ae", 4, 1>>>>>>,
        <<-15824, "sin", <<<<"an", 3, 2>>, <<"an", 4, -3>>, <<"ae", 3, 1>>>>>>,
        <<3451, "sin", <<<<"an", 3, 2>>, <<"an", 4, -3>>, <<"ae", 2, 1>>>>>>,
        <<4751, "sin", <<<<"an", 1, 1>>, <<"an", 4, -1>>>>>>,
        <<3896, "sin", <<<<"an", 2, 1>>, <<"an", 4, -1>>>>>>,
        <<35973, "sin", <<<<"an", 3, 1>>, <<"an", 4, -1>>>>>>,
        <<28278, "sin", <<<<"an", 3, 2>>, <<"an", 4, -2>>>>>>,
        <<13860, "sin", <<<<"an", 3, 3>>, <<"an", 4, -3>>>>>>,
        <<7803, "sin", <<<<"an", 3, 4>>, <<"an", 4, -4>>>>>>,
        <<4729, "sin", <<<<"an", 3, 5>>, <<"an", 4, -5>>>>>>,
        <<3000, "sin", <<<<"an", 3, 6>>, <<"an", 4, -6>>>>>>,
        <<1962, "sin", <<<<"an", 3, 7>>, <<"an", 4, -7>>>>>>,
        <<1311, "sin", <<<<"an", 3, 8>>, <<"an", 4, -8>>>>>>
    >>]

\* Oberon: elements[2] (Gust86.cpp lines 398-413)
OberonElem2 ==
    [const |-> 0, rate |-> 0, terms |-> <<
        <<-35, "cos", <<<<"ae", 1, 1>>>>>>,
        <<7453, "cos", <<<<"ae", 2, 1>>>>>>,
        <<-75868, "cos", <<<<"ae", 3, 1>>>>>>,
        <<139734, "cos", <<<<"ae", 4, 1>>>>>>,
        <<3900, "cos", <<<<"an", 1, 1>>>>>>,
        <<1766, "cos", <<<<"an", 1, -1>>, <<"an", 4, 2>>>>>>,
        <<3242, "cos", <<<<"an", 2, 1>>>>>>,
        <<7975, "cos", <<<<"an", 3, 1>>>>>>,
        <<7566, "cos", <<<<"an", 4, 1>>>>>>,
        <<13404, "cos", <<<<"an", 3, -1>>, <<"an", 4, 2>>>>>>,
        <<-98726, "cos", <<<<"an", 3, -2>>, <<"an", 4, 3>>>>>>,
        <<-12609, "cos", <<<<"an", 3, -3>>, <<"an", 4, 4>>>>>>,
        <<-5742, "cos", <<<<"an", 3, -4>>, <<"an", 4, 5>>>>>>,
        <<-3241, "cos", <<<<"an", 3, -5>>, <<"an", 4, 6>>>>>>,
        <<-1999, "cos", <<<<"an", 3, -6>>, <<"an", 4, 7>>>>>>,
        <<-1294, "cos", <<<<"an", 3, -7>>, <<"an", 4, 8>>>>>>
    >>]

\* Oberon: elements[3] (Gust86.cpp lines 414-429)
OberonElem3 ==
    [const |-> 0, rate |-> 0, terms |-> <<
        <<-35, "sin", <<<<"ae", 1, 1>>>>>>,
        <<7453, "sin", <<<<"ae", 2, 1>>>>>>,
        <<-75868, "sin", <<<<"ae", 3, 1>>>>>>,
        <<139734, "sin", <<<<"ae", 4, 1>>>>>>,
        <<3900, "sin", <<<<"an", 1, 1>>>>>>,
        <<1766, "sin", <<<<"an", 1, -1>>, <<"an", 4, 2>>>>>>,
        <<3242, "sin", <<<<"an", 2, 1>>>>>>,
        <<7975, "sin", <<<<"an", 3, 1>>>>>>,
        <<7566, "sin", <<<<"an", 4, 1>>>>>>,
        <<13404, "sin", <<<<"an", 3, -1>>, <<"an", 4, 2>>>>>>,
        <<-98726, "sin", <<<<"an", 3, -2>>, <<"an", 4, 3>>>>>>,
        <<-12609, "sin", <<<<"an", 3, -3>>, <<"an", 4, 4>>>>>>,
        <<-5742, "sin", <<<<"an", 3, -4>>, <<"an", 4, 5>>>>>>,
        <<-3241, "sin", <<<<"an", 3, -5>>, <<"an", 4, 6>>>>>>,
        <<-1999, "sin", <<<<"an", 3, -6>>, <<"an", 4, 7>>>>>>,
        <<-1294, "sin", <<<<"an", 3, -7>>, <<"an", 4, 8>>>>>>
    >>]

\* Oberon: elements[4] (Gust86.cpp lines 430-434)
OberonElem4 ==
    [const |-> 0, rate |-> 0, terms |-> <<
        <<-44, "cos", <<<<"ai", 0, 1>>>>>>,
        <<-31, "cos", <<<<"ai", 1, 1>>>>>>,
        <<3689, "cos", <<<<"ai", 2, 1>>>>>>,
        <<-59633, "cos", <<<<"ai", 3, 1>>>>>>,
        <<45169, "cos", <<<<"ai", 4, 1>>>>>>
    >>]

\* Oberon: elements[5] (Gust86.cpp lines 435-439)
OberonElem5 ==
    [const |-> 0, rate |-> 0, terms |-> <<
        <<-44, "sin", <<<<"ai", 0, 1>>>>>>,
        <<-31, "sin", <<<<"ai", 1, 1>>>>>>,
        <<3689, "sin", <<<<"ai", 2, 1>>>>>>,
        <<-59633, "sin", <<<<"ai", 3, 1>>>>>>,
        <<45169, "sin", <<<<"ai", 4, 1>>>>>>
    >>]

Gust86Series ==
    Arr(<< Arr(<<MirandaElem0, MirandaElem1, MirandaElem2,
                 MirandaElem3, MirandaElem4, MirandaElem5>>),
           Arr(<<ArielElem0, ArielElem1, ArielElem2,
                 ArielElem3, ArielElem4, ArielElem5>>),
           Arr(<<UmbrielElem0, UmbrielElem1, UmbrielElem2,
                 UmbrielElem3, UmbrielElem4, UmbrielElem5>>),
           Arr(<<TitaniaElem0, TitaniaElem1, TitaniaElem2,
                 TitaniaElem3, TitaniaElem4, TitaniaElem5>>),
           Arr(<<OberonElem0, OberonElem1, OberonElem2,
                 OberonElem3, OberonElem4, OberonElem5>>) >>)

\* an[i] = fmod(fqn[i] * t + phn[i], 2*M_PI), and ae, ai alike
Gust86Angles(t, tab) ==
    [an |-> [i \in 0..4 |-> FFmod(FAdd(LitMul(tab.fqn[i], t), FromLit(tab.phn[i])), TwoPi)],
     ae |-> [i \in 0..4 |-> FFmod(FAdd(LitMul(tab.fqe[i], t), FromLit(tab.phe[i])), TwoPi)],
     ai |-> [i \in 0..4 |-> FFmod(FAdd(LitMul(tab.fqi[i], t), FromLit(tab.phi[i])), TwoPi)]]

\* the argument of one term: the sum of multiplier * angle
RECURSIVE ArgSum(_, _, _)
ArgSum(combo, k, ang) ==
    IF k = 0 THEN 0
    ELSE FAdd(ArgSum(combo, k - 1, ang),
              FMul(ang[combo[k][1]][combo[k][2]], combo[k][3] * S))

Trig(fn, x) == IF fn = "sin" THEN FSin(x) ELSE FCos(x)

\* coefficient * fn(argument), in units of 10^-8
TermValue(term, ang) == FMul(term[1], Trig(term[2], ArgSum(term[3], Len(term[3]), ang)))

RECURSIVE TermsSum(_, _, _)
TermsSum(terms, k, ang) ==
    IF k = 0 THEN 0
    ELSE FAdd(TermsSum(terms, k - 1, ang), TermValue(terms[k], ang))

\* one element of the vector
ElementValue(e, ang, t) ==
    LET periodic == FromLit(FAdd(e.const, TermsSum(e.terms, Len(e.terms), ang)))
    IN  IF e.rate = 0 THEN periodic ELSE FAdd(periodic, LitMul(e.rate, t))

\* the switch of CalcGust86Elem for one of the five bodies
SeriesElements(body, ang, t) ==
    [i \in 0..5 |-> ElementValue(Gust86Series[body][i], ang, t)]

-----------------------------------------------------------------------------
(***************************************************************************)
(* EllipticToRectangularN and EllipticToRectangular.  Lengths are in       *)
(* units of 10^-7 AU, speeds in units of 10^-7 AU/day.                     *)
(***************************************************************************)

\* floor(q * 10^d + r * 10^d / a), digit by digit
RECURSIVE FloorDigits(_, _, _, _)
FloorDigits(q, r, a, d) ==
    IF d = 0 THEN q
    ELSE FloorDigits(q * 10 + (r * 10) \div a, (r * 10) % a, a, d - 1)

\* a^3 <= Q * 10^5
CubeLeq(a, Q) ==
    \/ a = 0
    \/ Q \div a >= 21474
    \/ a * a <= FloorDigits(Q \div a, Q % a, a, 5)

RECURSIVE CbrtIn(_, _, _)
CbrtIn(Q, lo, hi) ==
    IF lo >= hi THEN lo
    ELSE LET mid == (lo + hi + 1) \div 2
         IN  IF CubeLeq(mid, Q) THEN CbrtIn(Q, mid, hi)
                                ELSE CbrtIn(Q, lo, mid - 1)

\* pow(Q, 1.0 / 3.0): Q in units of 10^-16 AU^3, the result in 10^-7 AU
Pow13(Q) ==
    IF IsNaN(Q) THEN NaN
    ELSE IF IsInf(Q) THEN PInf
    ELSE IF Q < 0 THEN NaN
    ELSE CbrtIn(Q, 0, 46340)

\* the semi-major axis with n - n written for n * n
SemiMajorAxisOfDifference(mu, n) == Pow13(FDiv(mu, FSub(n, n)))

\* a = pow(mu / (n * n), 1.0 / 3.0)
SemiMajorAxis(mu, n) == Pow13(FDiv(mu, FMul(n, n)))

\* L = fmod(elem[1] + n*dt, 2.0*M_PI)
MeanLongitude(elem, n, dt) == FFmod(FAdd(elem[1], FMul(n, dt)), TwoPi)

\* Le = L - elem[2]*sin(L) + elem[3]*cos(L)
KeplerSeed(L, elem) ==
    FAdd(FSub(L, FMul(elem[2], FSin(L))), FMul(elem[3], FCos(L)))

\* the divisor with cos(F) and sin(F) written for elem[2] and elem[3]
DenominatorSquares(elem, F) ==
    FSub(FSub(S, FMul(FCos(F), FCos(F))), FMul(FSin(F), FSin(F)))

\* 1.0 - elem[2]*cLe - elem[3]*sLe: the divisor of the Newton step, and the
\* 1.0 + rsam1 that divides a*n
Denominator(elem, F) ==
    FSub(FSub(S, FMul(elem[2], FCos(F))), FMul(elem[3], FSin(F)))

\* the correction with its sign reversed
NewtonCorrectionNegated(L, Le, elem) ==
    LET cLe == FCos(Le)
        sLe == FSin(Le)
    IN  FDiv(FAdd(FSub(FSub(Le, L), FMul(elem[2], sLe)), FMul(elem[3], cLe)),
             FSub(FSub(S, FMul(elem[2], cLe)), FMul(elem[3], sLe)))

\* dLe = (L - Le + elem[2]*sLe - elem[3]*cLe) / (1.0 - elem[2]*cLe - elem[3]*sLe)
NewtonCorrection(L, Le, elem) ==
    LET cLe == FCos(Le)
        sLe == FSin(Le)
    IN  FDiv(FSub(FAdd(FSub(L, Le), FMul(elem[2], sLe)), FMul(elem[3], cLe)),
             Denominator(elem, Le))

\* 1e-14 radians: 11 steps of the resolution of a double at 2 pi (2^-50),
\* so 11 steps of the resolution of the model
Tol == 11

\* fabs(dLe) <= 1e-14
Converged(dLe) == FLe(FAbs(dLe), Tol)

\* the rectangular state from the solved Le
RectState(a, n, elem, Le) ==
    LET cLe == FCos(Le)
        sLe == FSin(Le)
        dlf == FAdd(FMul(FNeg(elem[2]), sLe), FMul(elem[3], cLe))
        phi_ == FSqrt(FSub(FSub(S, FMul(elem[2], elem[2])), FMul(elem[3], elem[3])))
        psi == FDiv(S, FAdd(S, phi_))
        x1 == FMul(a, FSub(FSub(cLe, elem[2]), FMul(FMul(psi, dlf), elem[3])))
        y1 == FMul(a, FAdd(FSub(sLe, elem[3]), FMul(FMul(psi, dlf), elem[2])))
        elem_4q == FMul(elem[4], elem[4])
        elem_5q == FMul(elem[5], elem[5])
        dwho == FMul(2 * S, FSqrt(FSub(FSub(S, elem_4q), elem_5q)))
        rtp == FSub(FSub(S, elem_5q), elem_5q)
        rtq == FSub(FSub(S, elem_4q), elem_4q)
        rdg == FMul(FMul(2 * S, elem[5]), elem[4])
        rsam1 == FSub(FMul(FNeg(elem[2]), cLe), FMul(elem[3], sLe))
        h == FDiv(FMul(a, n), FAdd(S, rsam1))
        vx1 == FMul(h, FSub(FNeg(sLe), FMul(FMul(psi, rsam1), elem[3])))
        vy1 == FMul(h, FAdd(cLe, FMul(FMul(psi, rsam1), elem[2])))
    IN  Arr(<< FAdd(FMul(x1, rtp), FMul(y1, rdg)),
               FAdd(FMul(x1, rdg), FMul(y1, rtq)),
               FMul(FAdd(FMul(FNeg(x1), elem[5]), FMul(y1, elem[4])), dwho),
               FAdd(FMul(vx1, rtp), FMul(vy1, rdg)),
               FAdd(FMul(vx1, rdg), FMul(vy1, rtq)),
               FMul(FAdd(FMul(FNeg(vx1), elem[5]), FMul(vy1, elem[4])), dwho) >>)

-----------------------------------------------------------------------------
(***************************************************************************)
(* Units and epochs of vesta/Units.h and Constants.h.                      *)
(***************************************************************************)

SecondsPerDay == 86400

\* seconds (a count of seconds) to days (scale S)
secondsToDays(s) == FDiv(s, SecondsPerDay)

\* days (scale S) to seconds (a count of seconds)
daysToSeconds(d) == FMul(d, SecondsPerDay)

\* J2000 - GUST86_T0 = 2451545.0 - 2444239.5 days
EpochOffset == 73055000

\* astro::AU: kilometres in 10^-7 AU (14.9597870691)
AU == 149598

\* r * v with r = Matrix3d(GUST86toJ2000).transpose(): r(i, j) is entry 3i + j
Rotate(G, v, o) ==
    [i \in 0..2 |-> FAdd(FAdd(LitMul(G[3 * i], v[o]), LitMul(G[3 * i + 1], v[o + 1])),
                         LitMul(G[3 * i + 2], v[o + 2]))]

\* the velocity taken as AU/year: divided by the seconds of 365.25 days
StateVectorPerYear(G, x) ==
    [position |-> [i \in 0..2 |-> FMul(Rotate(G, x, 0)[i], AU)],
     velocity |-> [i \in 0..2 |-> FDiv(FMul(Rotate(G, x, 3)[i], AU),
                                       daysToSeconds(3652500))]]

\* position in km, velocity in km/s (scale S)
StateVector(G, x) ==
    [position |-> [i \in 0..2 |-> FMul(Rotate(G, x, 0)[i], AU)],
     velocity |-> [i \in 0..2 |-> FDiv(FMul(Rotate(G, x, 3)[i], AU), daysToSeconds(S))]]

\* the period left at the constructor's 1.0
PlaceholderPeriod(fq) == 1

\* 2.0 * PI / fq, in seconds
OrbitalPeriod(fq) == daysToSeconds(FDiv(TwoPi, FromLit(fq)))

\* the switch with each literal one case late
BoundingRadiusShifted(satellite) ==
    CASE satellite = 0 -> 590000
      [] satellite = 1 -> 140000
      [] satellite = 2 -> 200000
      [] satellite = 3 -> 270000
      [] satellite = 4 -> 440000
      [] OTHER -> 0

\* the switch of Gust86Orbit::Create; the constructor's 0.0 when no case matches
BoundingRadius(satellite) ==
    CASE satellite = 0 -> 140000
      [] satellite = 1 -> 200000
      [] satellite = 2 -> 270000
      [] satellite = 3 -> 440000
      [] satellite = 4 -> 590000
      [] OTHER -> 0

-----------------------------------------------------------------------------
(***************************************************************************)
(* The program: orbits made by Gust86Orbit::Create, and calls of           *)
(* Gust86Orbit::state running on threads, each with its own stack frame.   *)
(***************************************************************************)

VARIABLES
    statics,    \* the static tables of Gust86.cpp
    orbits,     \* the Gust86Orbit objects made so far, in order of creation
    pc,         \* pc[th]: where thread th's call of state() stands
    call,       \* call[th]: the arguments thread th passed (this, tdbSec)
    frame,      \* frame[slot]: the automatic variables of a call
    iters,      \* iters[th]: passes of the Newton loop made by the call
    lastCall    \* the call that returned last: what it was asked, what it
                \* computed and what it handed to its caller

vars == <<statics, orbits, pc, call, frame, iters, lastCall>>

NumThreads == 2
Threads == 1..NumThreads

MaxOrbits == 1

\* the values a caller can pass for the enum: the five members and the
\* values past them
MaxSatelliteValue == 5
SatelliteValues == 0..MaxSatelliteValue

\* the times (seconds from J2000) the callers ask for: a few finite ones
\* and an infinite one
NumTimes == 1
TimeStep == 777600
Times == {i * TimeStep : i \in 0..NumTimes} \cup {PInf}

\* the iteration cap the design asks for
KeplerCap == 50

Unset5 == [i \in 0..4 |-> Unset]
Unset6 == [i \in 0..5 |-> Unset]
NoVector == [position |-> [i \in 0..2 |-> Unset], velocity |-> [i \in 0..2 |-> Unset]]

NoCall == [this |-> 0, tdbSec |-> Unset]

\* a frame nothing was written to
EmptyFrame ==
    [t |-> Unset, satIndex |-> Unset,
     ang |-> [an |-> Unset5, ae |-> Unset5, ai |-> Unset5],
     elements |-> Unset6, a |-> Unset, n |-> Unset,
     L |-> Unset, Le |-> Unset, dLe |-> Unset,
     x |-> Unset6, ret |-> NoVector]

NoReturn == [satellite |-> Unset, tdbSec |-> Unset, elements |-> Unset6, ret |-> NoVector]

\* what a read of storage that was never written, or of an array past its
\* end, can yield
GarbageDoubles == {0, 95961}
GarbageElements == { [i \in 0..5 |-> 0], Arr(<<44435, 1000, 13, 5, 379, 10>>) }

\* all of thread 1's calls using one frame, as function-static storage would
StaticFrame(th) == 1

\* the stack frame of thread th's call: automatic storage, one per call
FrameOf(th) == th

\* table[i]; past the end of the table the read yields whatever lies there
ReadTable(table, i) == IF i \in DOMAIN table THEN {table[i]} ELSE GarbageDoubles

Init ==
    /\ statics = Gust86Statics
    /\ orbits = <<>>
    /\ pc = [th \in Threads |-> "idle"]
    /\ call = [th \in Threads |-> NoCall]
    /\ frame = [th \in Threads |-> EmptyFrame]
    /\ iters = [th \in Threads |-> 0]
    /\ lastCall = NoReturn

\* Gust86Orbit::Create(satellite)
Create(satellite) ==
    /\ Len(orbits) < MaxOrbits
    /\ \E fq \in ReadTable(statics.fqn, satellite) :
          orbits' = Append(orbits, [m_satellite |-> satellite,
                                    m_boundingRadius |-> BoundingRadius(satellite),
                                    m_period |-> OrbitalPeriod(fq)])
    /\ UNCHANGED <<statics, pc, call, frame, iters, lastCall>>

\* state(tdbSec) is called on orbit o: t and satIndex
StateEnter(th, o, tdbSec) ==
    /\ pc[th] = "idle"
    /\ o \in DOMAIN orbits
    /\ call' = [call EXCEPT ![th] = [this |-> o, tdbSec |-> tdbSec]]
    /\ frame' = [frame EXCEPT ![FrameOf(th)] =
                    [EmptyFrame EXCEPT !.t = FAdd(secondsToDays(tdbSec), EpochOffset),
                                       !.satIndex = orbits[o].m_satellite]]
    /\ pc' = [pc EXCEPT ![th] = "angles"]
    /\ iters' = [iters EXCEPT ![th] = 0]
    /\ UNCHANGED <<statics, orbits, lastCall>>

\* CalcGust86Elem: the loop that fills an, ae, ai
CalcAngles(th) ==
    /\ pc[th] = "angles"
    /\ frame' = [frame EXCEPT ![FrameOf(th)].ang =
                    Gust86Angles(frame[FrameOf(th)].t, statics)]
    /\ pc' = [pc EXCEPT ![th] = "series"]
    /\ UNCHANGED <<statics, orbits, call, iters, lastCall>>

\* the series evaluator answering from the elements of the call before, when
\* that call was for the same body
CalcSeriesCached(th) ==
    LET f == frame[FrameOf(th)]
        body == orbits[call[th].this].m_satellite
    IN  /\ pc[th] = "series"
        /\ \E e \in (IF body = lastCall.satellite THEN {lastCall.elements}
                     ELSE IF body \in Satellites
                     THEN {SeriesElements(body, f.ang, f.t)}
                     ELSE GarbageElements) :
              frame' = [frame EXCEPT ![FrameOf(th)].elements = e]
        /\ pc' = [pc EXCEPT ![th] = "ellipN"]
        /\ UNCHANGED <<statics, orbits, call, iters, lastCall>>

\* CalcGust86Elem: the switch; no case writes elements for a body that is
\* none of the five
CalcSeries(th) ==
    LET f == frame[FrameOf(th)]
        body == orbits[call[th].this].m_satellite
    IN  /\ pc[th] = "series"
        /\ \E e \in (IF body \in Satellites
                     THEN {SeriesElements(body, f.ang, f.t)}
                     ELSE GarbageElements) :
              frame' = [frame EXCEPT ![FrameOf(th)].elements = e]
        /\ pc' = [pc EXCEPT ![th] = "ellipN"]
        /\ UNCHANGED <<statics, orbits, call, iters, lastCall>>

\* EllipticToRectangularN, and EllipticToRectangular up to the loop
EllipticToRectangularN(th) ==
    LET f == frame[FrameOf(th)]
        n == f.elements[0]
    IN  /\ pc[th] = "ellipN"
        /\ \E mu \in ReadTable(statics.gust86_rmu, f.satIndex) :
              LET L == MeanLongitude(f.elements, n, 0)
              IN  frame' = [frame EXCEPT ![FrameOf(th)].n = n,
                                         ![FrameOf(th)].a = SemiMajorAxis(mu, n),
                                         ![FrameOf(th)].L = L,
                                         ![FrameOf(th)].Le = KeplerSeed(L, f.elements)]
        /\ pc' = [pc EXCEPT ![th] = "newton"]
        /\ UNCHANGED <<statics, orbits, call, iters, lastCall>>

\* one pass of the loop with the test ahead of Le += dLe
NewtonIterTestFirst(th) ==
    LET f == frame[FrameOf(th)]
        dLe == NewtonCorrection(f.L, f.Le, f.elements)
    IN  /\ pc[th] = "newton"
        /\ frame' = [frame EXCEPT ![FrameOf(th)].dLe = dLe,
                                  ![FrameOf(th)].Le = IF Converged(dLe) THEN f.Le
                                                      ELSE FAdd(f.Le, dLe)]
        /\ iters' = [iters EXCEPT ![th] = IF @ > KeplerCap THEN @ ELSE @ + 1]
        /\ pc' = [pc EXCEPT ![th] = IF Converged(dLe) THEN "rect" ELSE "newton"]
        /\ UNCHANGED <<statics, orbits, call, lastCall>>

\* one pass of for (;;) { ... if (fabs(dLe) <= 1e-14) break; }
NewtonIter(th) ==
    LET f == frame[FrameOf(th)]
        dLe == NewtonCorrection(f.L, f.Le, f.elements)
    IN  /\ pc[th] = "newton"
        /\ frame' = [frame EXCEPT ![FrameOf(th)].dLe = dLe,
                                  ![FrameOf(th)].Le = FAdd(f.Le, dLe)]
        /\ iters' = [iters EXCEPT ![th] = IF @ > KeplerCap THEN @ ELSE @ + 1]
        /\ pc' = [pc EXCEPT ![th] = IF Converged(dLe) THEN "rect" ELSE "newton"]
        /\ UNCHANGED <<statics, orbits, call, lastCall>>

\* EllipticToRectangular after the loop
Rectangular(th) ==
    LET f == frame[FrameOf(th)]
    IN  /\ pc[th] = "rect"
        /\ frame' = [frame EXCEPT ![FrameOf(th)].x = RectState(f.a, f.n, f.elements, f.Le)]
        /\ pc' = [pc EXCEPT ![th] = "rotate"]
        /\ UNCHANGED <<statics, orbits, call, iters, lastCall>>

\* the rotation done with the table transposed where it lies
StateRotateInPlace(th) ==
    LET G == statics.GUST86toJ2000
        Gt == [i \in 0..8 |-> G[3 * (i % 3) + (i \div 3)]]
    IN  /\ pc[th] = "rotate"
        /\ statics' = [statics EXCEPT !.GUST86toJ2000 = Gt]
        /\ frame' = [frame EXCEPT ![FrameOf(th)].ret =
                        StateVector(G, frame[FrameOf(th)].x)]
        /\ pc' = [pc EXCEPT ![th] = "done"]
        /\ UNCHANGED <<orbits, call, iters, lastCall>>

\* state(): rotation to J2000 and the units of the result
StateRotate(th) ==
    /\ pc[th] = "rotate"
    /\ frame' = [frame EXCEPT ![FrameOf(th)].ret =
                    StateVector(statics.GUST86toJ2000, frame[FrameOf(th)].x)]
    /\ pc' = [pc EXCEPT ![th] = "done"]
    /\ UNCHANGED <<statics, orbits, call, iters, lastCall>>

\* return StateVector(position, velocity): the frame ends with the call
StateReturn(th) ==
    LET f == frame[FrameOf(th)]
    IN  /\ pc[th] = "done"
        /\ lastCall' = [satellite |-> orbits[call[th].this].m_satellite,
                        tdbSec |-> call[th].tdbSec,
                        elements |-> f.elements, ret |-> f.ret]
        /\ frame' = [frame EXCEPT ![FrameOf(th)] = EmptyFrame]
        /\ call' = [call EXCEPT ![th] = NoCall]
        /\ pc' = [pc EXCEPT ![th] = "idle"]
        /\ UNCHANGED <<statics, orbits, iters>>

Next ==
    \/ \E satellite \in SatelliteValues : Create(satellite)
    \/ \E th \in Threads :
          \/ \E o \in 1..MaxOrbits, tdbSec \in Times : StateEnter(th, o, tdbSec)
          \/ CalcAngles(th)
          \/ CalcSeries(th)
          \/ EllipticToRectangularN(th)
          \/ NewtonIter(th)
          \/ Rectangular(th)
          \/ StateRotate(th)
          \/ StateReturn(th)

Spec == Init /\ [][Next]_vars

-----------------------------------------------------------------------------
(***************************************************************************)
(* The Kepler solver on its own: EllipticToRectangularN started on element *)
(* vectors drawn from a grid, in and out of contract.                      *)
(***************************************************************************)

\* mean longitudes: multiples of LStride, LSteps to each side of 0
LSteps == 7
LStride == 5000

\* h and k: multiples of HStride, HSteps to each side of 0, values close to
\* 1 (0.98, and 0.9987, which with 0.05 makes an eccentricity of 0.99995)
\* and values out of contract (eccentricity 1, not a number)
HSteps == 4
HStride == 250
Eccentricities == {i * HStride : i \in (-HSteps)..HSteps} \cup {9800, 9987, S, NaN}

KeplerElements ==
    { Arr(<<44435, L, h, k, 379, 10>>) :
        L \in {i * LStride : i \in (-LSteps)..LSteps},
        h \in Eccentricities, k \in Eccentricities }

KInit ==
    /\ statics = Gust86Statics
    /\ orbits = <<[m_satellite |-> 0, m_boundingRadius |-> BoundingRadius(0),
                   m_period |-> OrbitalPeriod(Gust86Statics.fqn[0])]>>
    /\ pc = [th \in Threads |-> IF th = 1 THEN "ellipN" ELSE "idle"]
    /\ call = [th \in Threads |-> IF th = 1 THEN [this |-> 1, tdbSec |-> 0] ELSE NoCall]
    /\ \E e \in KeplerElements :
          frame = [th \in Threads |->
                      IF th = 1
                      THEN [EmptyFrame EXCEPT !.t = EpochOffset, !.satIndex = 0,
                                              !.elements = e]
                      ELSE EmptyFrame]
    /\ iters = [th \in Threads |-> 0]
    /\ lastCall = NoReturn

KNext ==
    \E th \in Threads :
        \/ EllipticToRectangularN(th)
        \/ NewtonIter(th)
        \/ Rectangular(th)

KeplerSpec == KInit /\ [][KNext]_vars

-----------------------------------------------------------------------------
(***************************************************************************)
(* Properties                                                              *)
(***************************************************************************)

\* the body an orbit is bound to, for the call thread th runs
BodyOf(th) == orbits[call[th].this].m_satellite

\* the eccentricity of an element vector is at most 0.1, and the vector is
\* finite
InContract(elem) ==
    /\ \A i \in 0..5 : IsFinite(elem[i])
    /\ FAdd(FMul(elem[2], elem[2]), FMul(elem[3], elem[3])) <= S \div 100

\* C1: the Newton loop of a call of state(t) makes at most KeplerCap passes,
\* whatever the element vector it is given.
C1_LoopWithinCap ==
    \A th \in Threads : iters[th] <= KeplerCap

\* C2: a call whose Newton loop has made KeplerCap passes without reaching
\* |dLe| <= 1e-14 has left the loop and holds the NumericalNonConvergence
\* result for its caller.
C2_NonConvergenceReported ==
    \A th \in Threads :
        (iters[th] >= KeplerCap /\ ~Converged(frame[FrameOf(th)].dLe))
            => pc[th] = "NumericalNonConvergence"

\* C3: Create returns an orbit only for one of the five members of the
\* enumeration, so every orbit there is is bound to one of them.
C3_CreateRejectsUnrecognized ==
    \A i \in DOMAIN orbits : orbits[i].m_satellite \in Satellites

\* C4: whenever a call of state(t) is running, the index it uses for the
\* gravitational-parameter table is in 0..4 and, once the series evaluator
\* has run, all six elements were written by one of the five cases.
C4_QueryIdentityRecognized ==
    \A th \in Threads :
        pc[th] # "idle" =>
            /\ frame[FrameOf(th)].satIndex \in DOMAIN statics.gust86_rmu
            /\ pc[th] \in {"ellipN", "newton", "rect", "rotate", "done"} =>
                  frame[FrameOf(th)].elements =
                      SeriesElements(BodyOf(th), frame[FrameOf(th)].ang,
                                     frame[FrameOf(th)].t)

\* the time argument of CalcGust86Elem for a call asked for tdbSec
SeriesTime(tdbSec) == FAdd(secondsToDays(tdbSec), EpochOffset)

\* thread th takes a step of its call
Steps(th) == pc'[th] # pc[th] \/ iters'[th] # iters[th]

C6_WritesAreLocal ==
    [][\A th \in Threads :
          (Steps(th) /\ (pc[th] # "idle" \/ pc'[th] # "idle")) =>
              /\ statics' = statics
              /\ orbits' = orbits
              /\ \A other \in Threads \ {th} :
                    frame'[FrameOf(other)] = frame[FrameOf(other)]]_vars

\* C6 witness: both threads are in the middle of a call on the same orbit,
\* each with angles of its own.
C6_Witness ==
    /\ pc[1] = "newton" /\ pc[2] = "series"
    /\ call[1].this = call[2].this
    /\ call[1].tdbSec # call[2].tdbSec
    /\ frame[FrameOf(1)].ang # frame[FrameOf(2)].ang
    /\ IsFinite(frame[FrameOf(2)].ang.an[0])
    /\ statics = Gust86Statics

\* C7: a step of a call of state(t) leaves the orbit's satellite, period and
\* bounding radius and every table as they were; a call starts with no
\* element vector, and the vector the series evaluator leaves is the one
\* computed from the call's own time and body.
C7_NothingKept ==
    [][\A th \in Threads :
          (Steps(th) /\ (pc[th] # "idle" \/ pc'[th] # "idle")) =>
              /\ statics' = statics
              /\ orbits' = orbits
              /\ pc[th] = "idle" => frame'[FrameOf(th)].elements = Unset6
              /\ (pc[th] = "series" /\ BodyOf(th) \in Satellites) =>
                    frame'[FrameOf(th)].elements =
                        SeriesElements(BodyOf(th),
                                       Gust86Angles(SeriesTime(call[th].tdbSec), Gust86Statics),
                                       SeriesTime(call[th].tdbSec))]_vars

\* C7 witness: the series evaluator has run for a call that follows a call
\* for the same body and another time, and left another vector.
C7_Witness ==
    /\ pc[1] = "ellipN"
    /\ BodyOf(1) = 1
    /\ lastCall.satellite = 1
    /\ lastCall.tdbSec # call[1].tdbSec
    /\ IsFinite(frame[FrameOf(1)].elements[1])
    /\ IsFinite(lastCall.elements[1])
    /\ frame[FrameOf(1)].elements # lastCall.elements
    /\ orbits[1] = [m_satellite |-> 1, m_boundingRadius |-> BoundingRadius(1),
                    m_period |-> OrbitalPeriod(Gust86Statics.fqn[1])]

\* C8: for every mean longitude and every (h, k) of eccentricity at most
\* 0.1, the Newton loop is left before it has made KeplerCap passes.
C8_ConvergesInContract ==
    \A th \in Threads :
        (pc[th] = "newton" /\ InContract(frame[FrameOf(th)].elements))
            => iters[th] < KeplerCap

\* C8 witness: the loop was left, after more than one pass, for an element
\* vector of eccentricity 0.1.
C8_Witness ==
    /\ pc[1] = "rect"
    /\ frame[FrameOf(1)].elements[2] = S \div 10
    /\ frame[FrameOf(1)].elements[3] = 0
    /\ frame[FrameOf(1)].elements[1] = 2 * LStride
    /\ iters[1] >= 2
    /\ Converged(frame[FrameOf(1)].dLe)

\* the residual of F = L - h*sin(F) + k*cos(F) at F, with h and k the third
\* and fourth elements
StatedResidual(L, F, elem) ==
    FSub(F, FAdd(FSub(L, FMul(elem[2], FSin(F))), FMul(elem[3], FCos(F))))

\* C9: the F the Kepler solver leaves satisfies F = L - h*sin(F) + k*cos(F),
\* h and k being the third and fourth elements, to within the tolerance of
\* the loop and the rounding of the four operations.
C9_SolvesStatedEquation ==
    \A th \in Threads :
        (pc[th] = "rect" /\ InContract(frame[FrameOf(th)].elements)) =>
            FLe(FAbs(StatedResidual(frame[FrameOf(th)].L, frame[FrameOf(th)].Le,
                                    frame[FrameOf(th)].elements)),
                4 * Tol)

\* an element of the series with every term's function replaced by fn
WithTrig(e, fn) ==
    [e EXCEPT !.terms = [j \in DOMAIN e.terms |-> <<e.terms[j][1], fn, e.terms[j][3]>>]]

\* the element vector of thread th's call was written by the series evaluator
SeriesDone(th) ==
    /\ pc[th] \in {"ellipN", "newton", "rect", "rotate", "done"}
    /\ BodyOf(th) \in Satellites

\* C10 (as stated): the third element is the sum over sines, the fourth the
\* sum over cosines of the same combinations with the same coefficients, and
\* likewise the fifth (sines) and the sixth (cosines).
C10_ThirdFromSines ==
    \A th \in Threads :
        SeriesDone(th) =>
            LET f == frame[FrameOf(th)]
                ser == Gust86Series[BodyOf(th)]
            IN  /\ f.elements[2] = ElementValue(WithTrig(ser[3], "sin"), f.ang, f.t)
                /\ f.elements[3] = ElementValue(WithTrig(ser[2], "cos"), f.ang, f.t)
                /\ f.elements[4] = ElementValue(WithTrig(ser[5], "sin"), f.ang, f.t)
                /\ f.elements[5] = ElementValue(WithTrig(ser[4], "cos"), f.ang, f.t)

\* C10 (amended): the third element is the sum over cosines, e*cos(varpi),
\* the fourth the sum over sines, e*sin(varpi), of the same combinations
\* with the same coefficients, and likewise the fifth (cosines) and the
\* sixth (sines).
C10_ThirdFromCosines ==
    \A th \in Threads :
        SeriesDone(th) =>
            LET f == frame[FrameOf(th)]
                ser == Gust86Series[BodyOf(th)]
            IN  /\ f.elements[2] = ElementValue(WithTrig(ser[3], "cos"), f.ang, f.t)
                /\ f.elements[3] = ElementValue(WithTrig(ser[2], "sin"), f.ang, f.t)
                /\ f.elements[4] = ElementValue(WithTrig(ser[5], "cos"), f.ang, f.t)
                /\ f.elements[5] = ElementValue(WithTrig(ser[4], "sin"), f.ang, f.t)

\* C10 witness: the series evaluator has written Miranda's vector for a
\* finite time, with a third element that is not the fourth and a fifth
\* that is not the sixth.
C10_Witness ==
    /\ pc[1] = "ellipN"
    /\ BodyOf(1) = 0
    /\ \A i \in 0..5 : IsFinite(frame[FrameOf(1)].elements[i])
    /\ frame[FrameOf(1)].elements[2] # frame[FrameOf(1)].elements[3]
    /\ frame[FrameOf(1)].elements[4] # frame[FrameOf(1)].elements[5]
    /\ frame[FrameOf(1)].elements[2] # 0 /\ frame[FrameOf(1)].elements[3] # 0

\* the literals of the claim: the bounding radius of each of the five, km
RadiusLiterals == Arr(<<140000, 200000, 270000, 440000, 590000>>)

\* C11: an orbit made for one of the five satellites carries the period
\* 2*pi / fqn[satellite] in seconds and that satellite's bounding radius,
\* never the constructor's 1.0 and 0.0, and a call of state(t) on it uses
\* the gravitational parameter and the series of that same satellite.
C11_BoundToOwnEntries ==
    /\ \A i \in DOMAIN orbits :
          LET o == orbits[i]
          IN  o.m_satellite \in Satellites =>
                /\ o.m_period = daysToSeconds(FDiv(TwoPi, FromLit(Gust86Statics.fqn[o.m_satellite])))
                /\ Abs(FMul(o.m_period, FromLit(Gust86Statics.fqn[o.m_satellite]))
                          - FMul(TwoPi, SecondsPerDay)) <= 100
                /\ o.m_boundingRadius = RadiusLiterals[o.m_satellite]
                /\ o.m_period # 1
                /\ o.m_boundingRadius # 0
    /\ \A th \in Threads :
          (pc[th] # "idle" /\ BodyOf(th) \in Satellites) =>
              LET f == frame[FrameOf(th)]
              IN  /\ f.satIndex = BodyOf(th)
                  /\ pc[th] \in {"ellipN", "newton", "rect", "rotate", "done"} =>
                        f.elements = SeriesElements(BodyOf(th), f.ang, f.t)
                  /\ pc[th] \in {"newton", "rect", "rotate", "done"} =>
                        f.a = SemiMajorAxis(Gust86Statics.gust86_rmu[BodyOf(th)], f.elements[0])

\* C11 witness: a call on an orbit made for Titania stands in the Newton
\* loop with Titania's semi-major axis.
C11_Witness ==
    /\ Len(orbits) = 1
    /\ orbits[1].m_satellite = 3
    /\ orbits[1].m_boundingRadius = 440000
    /\ orbits[1].m_period > SecondsPerDay
    /\ pc[1] = "newton"
    /\ IsFinite(frame[FrameOf(1)].a) /\ frame[FrameOf(1)].a > 0

-----------------------------------------------------------------------------
(***************************************************************************)
(* One call of state(t) for each of the five satellites over a sweep of    *)
(* times: tdbSec from -SweepSteps * SweepStep to SweepSteps * SweepStep    *)
(* seconds, and the instant at which the time of the series is 0.          *)
(***************************************************************************)

SweepSteps == 100
SweepStep == 8640000

\* the tdbSec for which t = secondsToDays(tdbSec) + (J2000 - GUST86_T0) is 0
SeriesEpoch == -daysToSeconds(EpochOffset)

SweepTimes == {i * SweepStep : i \in (-SweepSteps)..SweepSteps} \cup {SeriesEpoch}

SwInit ==
    /\ statics = Gust86Statics
    /\ \E satellite \in Satellites :
          orbits = <<[m_satellite |-> satellite,
                      m_boundingRadius |-> BoundingRadius(satellite),
                      m_period |-> OrbitalPeriod(Gust86Statics.fqn[satellite])]>>
    /\ pc = [th \in Threads |-> IF th = 1 THEN "angles" ELSE "idle"]
    /\ \E tdbSec \in SweepTimes :
          /\ call = [th \in Threads |->
                        IF th = 1 THEN [this |-> 1, tdbSec |-> tdbSec] ELSE NoCall]
          /\ frame = [th \in Threads |->
                        IF th = 1
                        THEN [EmptyFrame EXCEPT !.t = FAdd(secondsToDays(tdbSec), EpochOffset),
                                                !.satIndex = orbits[1].m_satellite]
                        ELSE EmptyFrame]
    /\ iters = [th \in Threads |-> 0]
    /\ lastCall = NoReturn

SwNext ==
    \E th \in Threads :
        \/ CalcAngles(th)
        \/ CalcSeries(th)
        \/ EllipticToRectangularN(th)
        \/ NewtonIter(th)
        \/ Rectangular(th)
        \/ StateRotate(th)

SweepSpec == SwInit /\ [][SwNext]_vars

\* C12: for Miranda at series time t = 0 the mean-longitude element is the
\* literal -0.23805158 plus sine terms only: the secular term is 0, every
\* periodic term is a sine, and without the periodic terms the element is
\* the literal itself.
C12_MirandaBias ==
    \A th \in Threads :
        (SeriesDone(th) /\ BodyOf(th) = 0 /\ frame[FrameOf(th)].t = 0) =>
            LET f == frame[FrameOf(th)]
                e == Gust86Series[0][1]
            IN  /\ LitMul(e.rate, f.t) = 0
                /\ \A j \in DOMAIN e.terms : e.terms[j][2] = "sin"
                /\ e.const = -23805158
                /\ f.elements[1] =
                      FromLit(FAdd(-23805158, TermsSum(e.terms, Len(e.terms), f.ang)))
                /\ ElementValue([e EXCEPT !.terms = <<>>], f.ang, f.t) = FromLit(-23805158)

\* C12 witness: the series evaluator has run for Miranda at series time 0,
\* and the sines have moved the element off the bias.
C12_Witness ==
    /\ pc[1] = "ellipN"
    /\ BodyOf(1) = 0
    /\ call[1].tdbSec = SeriesEpoch
    /\ frame[FrameOf(1)].t = 0
    /\ IsFinite(frame[FrameOf(1)].elements[1])
    /\ frame[FrameOf(1)].elements[1] # FromLit(-23805158)

\* the sum over k of G[3a+k] * G[3b+k] (rows) in units of 10^-8
RowDot(G, a, b) ==
    FAdd(FAdd(LitMul(G[3 * a], G[3 * b]), LitMul(G[3 * a + 1], G[3 * b + 1])),
         LitMul(G[3 * a + 2], G[3 * b + 2]))

\* the sum over k of G[3k+a] * G[3k+b] (columns) in units of 10^-8
ColDot(G, a, b) ==
    FAdd(FAdd(LitMul(G[a], G[b]), LitMul(G[3 + a], G[3 + b])),
         LitMul(G[6 + a], G[6 + b]))

\* C13: the matrix applied in state(t) is orthonormal: every entry of
\* R^T*R and of R*R^T is within 2 units of 10^-8, the rounding of the
\* entries and of the products, of the identity matrix.
C13_RotationOrthonormal ==
    \A a \in 0..2, b \in 0..2 :
        LET G == statics.GUST86toJ2000
            id == IF a = b THEN 10^8 ELSE 0
        IN  /\ Abs(RowDot(G, a, b) - id) <= 2
            /\ Abs(ColDot(G, a, b) - id) <= 2

\* C13 witness: a call has applied the matrix to a native state and holds
\* a finite position that is not the origin.
C13_Witness ==
    /\ pc[2] = "done"
    /\ BodyOf(2) = 4
    /\ \A i \in 0..2 : IsFinite(frame[FrameOf(2)].ret.position[i])
    /\ frame[FrameOf(2)].ret.position[0] # 0
    /\ \A i \in 0..8 : statics.GUST86toJ2000[i] = GUST86toJ2000[i]

\* C14: for each of the five satellites and every tdbSec of the sweep
\* (-10000 to 10000 days) the call meets no division by zero, no square
\* root of a negative number and no cube root of a non-positive or infinite
\* quantity, and every component it computes and returns is finite.
C14_FiniteOverSweep ==
    \A th \in Threads :
        (pc[th] # "idle" /\ BodyOf(th) \in Satellites /\ IsFinite(call[th].tdbSec)) =>
            LET f == frame[FrameOf(th)]
                e == f.elements
            IN  /\ IsFinite(f.t)
                /\ pc[th] \in {"ellipN", "newton", "rect", "rotate", "done"} =>
                      /\ \A i \in 0..5 : IsFinite(e[i])
                      /\ e[0] > 0
                      /\ FSub(FSub(S, FMul(e[2], e[2])), FMul(e[3], e[3])) > 0
                      /\ FSub(FSub(S, FMul(e[4], e[4])), FMul(e[5], e[5])) > 0
                /\ pc[th] \in {"newton", "rect", "rotate", "done"} =>
                      /\ IsFinite(f.a) /\ f.a > 0
                      /\ IsFinite(f.L) /\ IsFinite(f.Le)
                      /\ Denominator(e, f.Le) > 0
                      /\ iters[th] < KeplerCap
                /\ pc[th] \in {"rotate", "done"} => \A i \in 0..5 : IsFinite(f.x[i])
                /\ pc[th] = "done" =>
                      \A i \in 0..2 : IsFinite(f.ret.position[i]) /\ IsFinite(f.ret.velocity[i])

\* C14 witness: the call for Oberon at the far end of the sweep holds its
\* result, with a position and a velocity that are not zero.
C14_Witness ==
    /\ pc[1] = "done"
    /\ BodyOf(1) = 4
    /\ call[1].tdbSec = -SweepSteps * SweepStep
    /\ \A i \in 0..2 : IsFinite(frame[FrameOf(1)].ret.position[i])
                          /\ IsFinite(frame[FrameOf(1)].ret.velocity[i])
    /\ \E i \in 0..2 : frame[FrameOf(1)].ret.position[i] # 0
    /\ \E i \in 0..2 : frame[FrameOf(1)].ret.velocity[i] # 0

\* the length of a vector of kilometres
Norm(v) == FSqrt(FAdd(FAdd(FMul(v[0], v[0]), FMul(v[1], v[1])), FMul(v[2], v[2])))

\* C15: for each of the five satellites and every time of the sweep the
\* length of the position returned is between 0.9 and 1.1 times the mean
\* orbital radius a of the satellite, and at most the bounding radius of the
\* orbit.
C15_WithinBoundingRadius ==
    \A th \in Threads :
        (pc[th] = "done" /\ BodyOf(th) \in Satellites /\ IsFinite(call[th].tdbSec)) =>
            LET r == Norm(frame[FrameOf(th)].ret.position)
                mean == FMul(frame[FrameOf(th)].a, AU)
            IN  /\ IsFinite(r)
                /\ 10 * r <= 11 * mean
                /\ 10 * r >= 9 * mean
                /\ r <= orbits[call[th].this].m_boundingRadius

\* C15 witness: Umbriel, the satellite whose bounding radius is closest to
\* its orbit, stands farther out than its mean radius and inside the bound.
C15_Witness ==
    /\ pc[1] = "done"
    /\ BodyOf(1) = 2
    /\ orbits[1].m_boundingRadius = 270000
    /\ Norm(frame[FrameOf(1)].ret.position) > FMul(frame[FrameOf(1)].a, AU)
    /\ Norm(frame[FrameOf(1)].ret.position) > 266500
    /\ Norm(frame[FrameOf(1)].ret.position) <= 270000

\* C16: the solver seeds F with L - h*sin(L) + k*cos(L); each pass of the
\* loop computes dF from the F it finds, adds it to F and then tests it, so
\* the loop is left on the first pass whose |dF| <= 1e-14, never before one
\* pass was made, and F holds that last correction.
C16_SeedStepTest ==
    [][\A th \in Threads :
          LET f == frame[FrameOf(th)]
              g == frame'[FrameOf(th)]
          IN  /\ (pc[th] = "ellipN" /\ pc'[th] # "ellipN") =>
                    /\ pc'[th] = "newton"
                    /\ g.Le = FAdd(FSub(g.L, FMul(f.elements[2], FSin(g.L))),
                                   FMul(f.elements[3], FCos(g.L)))
                    /\ iters'[th] = 0
              /\ (pc[th] = "newton" /\ Steps(th)) =>
                    /\ iters[th] >= 1 => ~Converged(f.dLe)
                    /\ g.dLe = NewtonCorrection(f.L, f.Le, f.elements)
                    /\ g.Le = FAdd(f.Le, g.dLe)
                    /\ iters'[th] >= 1
                    /\ pc'[th] = "rect" <=> Converged(g.dLe)
                    /\ pc'[th] \in {"rect", "newton"}
              /\ (pc[th] = "rect" /\ pc'[th] # "rect") =>
                    /\ iters[th] >= 1
                    /\ Converged(f.dLe)
                    /\ g.Le = f.Le]_vars

\* C16 witness: the loop was left on its third pass with a last correction
\* that is not zero.
C16_Witness ==
    /\ pc[1] = "rect"
    /\ iters[1] = 3
    /\ frame[FrameOf(1)].dLe # 0
    /\ Converged(frame[FrameOf(1)].dLe)
    /\ InContract(frame[FrameOf(1)].elements)

\* h^2 + k^2 of an element vector
EccSq(elem) == FAdd(FMul(elem[2], elem[2]), FMul(elem[3], elem[3]))

\* the values of F the divisor is looked at: multiples of FStride from 0
\* past 2 pi
FSteps == 128
FStride == 491
FGrid == {i * FStride : i \in 0..FSteps}

RECURSIVE AbsCoefSum(_, _)
AbsCoefSum(terms, k) ==
    IF k = 0 THEN 0 ELSE AbsCoefSum(terms, k - 1) + FAbs(terms[k][1])

\* 1, in the units of the coefficients
LitOne == S * S

\* p^2 + q^2 of an element vector
InclSq(elem) == FAdd(FMul(elem[4], elem[4]), FMul(elem[5], elem[5]))

\* the stages of a query at which the elements have been handed on
SolverStages == {"ellipN", "newton", "rect", "rotate"}

\* C18: for each of the five satellites the series of h, k, p and q have no
\* constant and no secular term and the absolute values of their
\* coefficients sum to less than 1, and the constant of n exceeds the sum of
\* the absolute values of its periodic coefficients; the elements a query
\* hands to the solver have n > 0, h^2 + k^2 < 1 and p^2 + q^2 < 1.
C18_ElementsInContract ==
    /\ \A b \in Satellites :
          /\ \A i \in 2..5 :
                LET e == Gust86Series[b][i]
                IN  /\ e.const = 0
                    /\ e.rate = 0
                    /\ AbsCoefSum(e.terms, Len(e.terms)) < LitOne
          /\ LET n == Gust86Series[b][0]
             IN  /\ n.rate = 0
                 /\ n.const > AbsCoefSum(n.terms, Len(n.terms))
    /\ \A th \in Threads :
          pc[th] \in SolverStages =>
              LET elem == frame[FrameOf(th)].elements
              IN  /\ \A i \in 0..5 : IsFinite(elem[i])
                  /\ elem[0] > 0
                  /\ EccSq(elem) < S
                  /\ InclSq(elem) < S

\* C18 witness: the series of Oberon have been evaluated for the last instant
\* of the sweep and the loop of the solver has run on their elements, which
\* have an eccentricity that is not 0.
C18_Witness ==
    /\ pc[1] = "rect"
    /\ BodyOf(1) = 4
    /\ call[1].tdbSec = SweepSteps * SweepStep
    /\ iters[1] >= 1
    /\ EccSq(frame[FrameOf(1)].elements) < S
    /\ frame[FrameOf(1)].elements[2] # 0

\* row i of the transposed table times the three components of x from o on
RowTimes(G, i, x, o) ==
    FAdd(FAdd(LitMul(G[3 * i], x[o]), LitMul(G[3 * i + 1], x[o + 1])),
         LitMul(G[3 * i + 2], x[o + 2]))

=============================================================================
